---- MODULE Spec2Model ----
(***************************************************************************)
(* rmp3: the frame-iteration engine of src/lib.rs (struct Decoder).        *)
(*                                                                         *)
(* The decoder walks a borrowed byte buffer with a cursor (data_offset,    *)
(* data_ptr, data_rem_len), asks the minimp3 primitive for the next frame, *)
(* and hands out views.  The primitive and the byte contents of the buffer *)
(* are not part of lib.rs; the buffer is modelled by its layout (the       *)
(* chunks a frame search finds in it) and the primitive by the three       *)
(* outcomes of spec.md section 4.2.                                        *)
(*                                                                         *)
(* Widths are scaled: usize is UsizeBits wide and c_int::max_value() is    *)
(* c_int_max, so that buffers longer than the c_int ceiling and usize      *)
(* wrap-around are inside the checked range.                               *)
(***************************************************************************)
EXTENDS Integers, Sequences, FiniteSets, TLC

VARIABLES
    data,             \* the source buffer: [total, chunks]
    window_respected, \* the primitive never reports more bytes than its window
    ffi_frame,        \* Decoder.ffi_frame (mp3dec_frame_info_t)
    cached_len,       \* Decoder.cached_len : Option<usize>
    data_offset,      \* Decoder.data_offset
    data_ptr,         \* Decoder.data_ptr, as a distance from the buffer start
    data_rem_len,     \* Decoder.data_rem_len
    fault,            \* "none", "panic" (overflow check) or "wrapped"
    op,               \* the last operation called
    ret,              \* the Option<Frame> the last next_frame/peek_frame gave
    pos,              \* the value the last position() gave
    calls,            \* primitive invocations made by the last operation
    reported,         \* sum of frame_bytes reported to the last operation
    presented,        \* windows presented by the last operation
    prev,             \* the decoder as it was before the last operation
    hist              \* history of the calls made so far

vars == <<data, window_respected, ffi_frame, cached_len, data_offset, data_ptr,
          data_rem_len, fault, op, ret, pos, calls, reported, presented, prev, hist>>

----------------------------------------------------------------------------
(* Bounds and widths *)

MaxLen == 3

c_int_max == 2

UsizeBits == 4

MAX_SAMPLES_PER_FRAME == 2304

USIZE_MOD == 2 ^ UsizeBits

Min(a, b) == IF a <= b THEN a ELSE b

None == <<>>

Some(x) == <<x>>

----------------------------------------------------------------------------
(* The source buffer and the decode primitive *)

MonoHdr == [channels |-> 1, hz |-> 32000, layer |-> 1, bitrate_kbps |-> 64,
            samples |-> 384]

StereoHdr == [channels |-> 2, hz |-> 44100, layer |-> 3, bitrate_kbps |-> 128,
              samples |-> 1152]

\* "mono", "stereo": audio frames; "damaged": an audio header whose full
\* decode yields no samples; "tag": a chunk with no audio in it.
ChunkKinds == {"mono", "stereo", "damaged", "tag"}

HeaderOf(kind) == IF kind \in {"mono", "tag"} THEN MonoHdr ELSE StereoHdr

ChunkSet == [kind : ChunkKinds, len : 1..MaxLen]

\* Every chunk starts inside the buffer; the last one may claim more bytes
\* than are left (a truncated final frame).
RECURSIVE Layouts(_)
Layouts(rem) ==
    IF rem <= 0 THEN {<<>>}
    ELSE {<<>>} \cup
         UNION { { <<c>> \o t : t \in Layouts(rem - c.len) } : c \in ChunkSet }

Buffers == UNION { { [total |-> n, chunks |-> l] : l \in Layouts(n) } : n \in 0..MaxLen }

RECURSIVE ChunkStart(_, _)
ChunkStart(chunks, i) ==
    IF i = 1 THEN 0 ELSE ChunkStart(chunks, i - 1) + chunks[i - 1].len

ChunkAt(d, off) ==
    LET I == { i \in DOMAIN d.chunks : ChunkStart(d.chunks, i) = off }
    IN  IF I = {} THEN None ELSE Some(d.chunks[CHOOSE i \in I : TRUE])

\* pcm = TRUE: an output buffer is given (full decode); FALSE: header only.
mp3dec_decode_frame(d, mp3, mp3_bytes, pcm, info, bounded) ==
    LET c == ChunkAt(d, mp3)
    IN  IF c # None /\ (c[1].len <= mp3_bytes \/ ~bounded)
        THEN LET h == HeaderOf(c[1].kind)
             IN  [info |-> [frame_bytes |-> c[1].len, channels |-> h.channels,
                            hz |-> h.hz, layer |-> h.layer,
                            bitrate_kbps |-> h.bitrate_kbps],
                  ret |-> IF c[1].kind = "tag" THEN 0
                          ELSE IF pcm /\ c[1].kind = "damaged" THEN 0
                          ELSE h.samples]
        ELSE [info |-> [info EXCEPT !.frame_bytes = 0], ret |-> 0]

----------------------------------------------------------------------------
(* Decoder *)

ZeroedFrameInfo == [frame_bytes |-> 0, channels |-> 0, hz |-> 0, layer |-> 0,
                    bitrate_kbps |-> 0]

Self == [ffi_frame |-> ffi_frame, cached_len |-> cached_len,
         data_offset |-> data_offset, data_ptr |-> data_ptr,
         data_rem_len |-> data_rem_len, fault |-> "none",
         calls |-> 0, reported |-> 0, presented |-> <<>>]

\* Variant: the remaining length is passed on without the cap.
frame_len_uncapped(rem) == rem

\* Variant: the window is one byte longer than what remains.
frame_len_off_by_one(rem) == Min(rem + 1, c_int_max)

frame_len(rem) == Min(rem, c_int_max)

ffi_decode_frame(self, pcm) ==
    LET len == frame_len(self.data_rem_len)
        r == mp3dec_decode_frame(data, self.data_ptr, len, pcm, self.ffi_frame,
                                 window_respected)
    IN  [self |-> [self EXCEPT !.ffi_frame = r.info,
                               !.calls = @ + 1,
                               !.reported = @ + r.info.frame_bytes,
                               !.presented = Append(@, [remaining |-> self.data_rem_len,
                                                        len |-> len])],
         ret |-> r.ret]

\* usize subtraction: with overflow checks (checked = TRUE) an underflow
\* panics, without them it wraps.
sub_usize(self, field, n, checked) ==
    IF self[field] >= n THEN [self EXCEPT ![field] = @ - n]
    ELSE IF checked THEN [self EXCEPT !.fault = "panic"]
    ELSE [self EXCEPT ![field] = (@ - n) % USIZE_MOD, !.fault = "wrapped"]

add_usize(self, field, n, checked) ==
    IF self[field] + n < USIZE_MOD THEN [self EXCEPT ![field] = @ + n]
    ELSE IF checked THEN [self EXCEPT !.fault = "panic"]
    ELSE [self EXCEPT ![field] = (@ + n) % USIZE_MOD, !.fault = "wrapped"]

\* Variant: the remaining length is not shrunk.
next_frame_advance_no_rem(self, frame_bytes, checked) ==
    add_usize([self EXCEPT !.data_ptr = @ + frame_bytes],
              "data_offset", frame_bytes, checked)

\* Variant: the offset is not moved with the pointer.
next_frame_advance_no_offset(self, frame_bytes, checked) ==
    sub_usize([self EXCEPT !.data_ptr = @ + frame_bytes],
              "data_rem_len", frame_bytes, checked)

next_frame_advance(self, frame_bytes, checked) ==
    LET s1 == [self EXCEPT !.data_ptr = @ + frame_bytes]
        s2 == add_usize(s1, "data_offset", frame_bytes, checked)
    IN  IF s2.fault = "panic" THEN s2
        ELSE sub_usize(s2, "data_rem_len", frame_bytes, checked)

\* Variant: the cache survives a full decode.
next_frame_keeps_cache(cache) == cache

next_frame_invalidate(cache) == None

\* Variant: the sample view is sized in bytes (two per i16 sample).
next_frame_view_in_bytes(self, samples, frame_bytes) ==
    [bitrate |-> self.ffi_frame.bitrate_kbps,
     channels |-> self.ffi_frame.channels,
     samples |-> samples * self.ffi_frame.channels * 2,
     sample_rate |-> self.ffi_frame.hz,
     mpeg_layer |-> self.ffi_frame.layer,
     sample_count |-> samples,
     source |-> [start |-> self.data_ptr - frame_bytes, len |-> frame_bytes]]

\* Variant: the source view starts at the advanced pointer.
next_frame_view_at_cursor(self, samples, frame_bytes) ==
    [bitrate |-> self.ffi_frame.bitrate_kbps,
     channels |-> self.ffi_frame.channels,
     samples |-> samples * self.ffi_frame.channels,
     sample_rate |-> self.ffi_frame.hz,
     mpeg_layer |-> self.ffi_frame.layer,
     sample_count |-> samples,
     source |-> [start |-> self.data_ptr, len |-> frame_bytes]]

next_frame_view(self, samples, frame_bytes) ==
    [bitrate |-> self.ffi_frame.bitrate_kbps,
     channels |-> self.ffi_frame.channels,
     samples |-> samples * self.ffi_frame.channels,
     sample_rate |-> self.ffi_frame.hz,
     mpeg_layer |-> self.ffi_frame.layer,
     sample_count |-> samples,
     source |-> [start |-> self.data_ptr - frame_bytes, len |-> frame_bytes]]

\* Variant: a frame is returned for a sample count of zero too.
next_frame_returns_nonneg(samples) == samples >= 0

next_frame_returns(samples) == samples > 0

\* A panic unwinds out of the call.  After a wrap the pointer is outside the
\* buffer: a frame already decoded is still returned, and nothing the decoder
\* does after that is modelled (every action requires fault = "none").
RECURSIVE next_frame(_, _)
next_frame(self, checked) ==
    LET s0 == [self EXCEPT !.cached_len = next_frame_invalidate(@)]
        d == ffi_decode_frame(s0, TRUE)
        samples == d.ret
        frame_bytes == d.self.ffi_frame.frame_bytes
        s1 == next_frame_advance(d.self, frame_bytes, checked)
    IN  IF s1.fault = "panic" THEN [self |-> s1, ret |-> None]
        ELSE IF next_frame_returns(samples)
        THEN [self |-> s1, ret |-> Some(next_frame_view(s1, samples, frame_bytes))]
        ELSE IF s1.fault # "none" THEN [self |-> s1, ret |-> None]
        ELSE IF frame_bytes # 0 THEN next_frame(s1, checked)
        ELSE [self |-> s1, ret |-> None]

peek_frame_view(self, samples) ==
    [bitrate |-> self.ffi_frame.bitrate_kbps,
     channels |-> self.ffi_frame.channels,
     mpeg_layer |-> self.ffi_frame.layer,
     samples |-> 0,
     sample_rate |-> self.ffi_frame.hz,
     sample_count |-> samples,
     source |-> [start |-> self.data_ptr, len |-> self.ffi_frame.frame_bytes]]

\* Variant: the frame_bytes test is dropped.
peek_frame_found_always(info) == TRUE

peek_frame_found(info) == info.frame_bytes # 0

\* Variant: a chunk without samples is not reported.
peek_frame_needs_samples(self) ==
    LET d == ffi_decode_frame(self, FALSE)
        samples == d.ret
    IN  IF peek_frame_found(d.self.ffi_frame) /\ samples > 0
        THEN [self |-> [d.self EXCEPT !.cached_len = Some(d.self.ffi_frame.frame_bytes)],
              ret |-> Some(peek_frame_view(d.self, samples))]
        ELSE [self |-> d.self, ret |-> None]

\* Variant: the peek consumes what it found.
peek_frame_advancing(self) ==
    LET d == ffi_decode_frame(self, FALSE)
        samples == d.ret
    IN  IF peek_frame_found(d.self.ffi_frame)
        THEN [self |-> next_frame_advance(
                          [d.self EXCEPT !.cached_len = Some(d.self.ffi_frame.frame_bytes)],
                          d.self.ffi_frame.frame_bytes, TRUE),
              ret |-> Some(peek_frame_view(d.self, samples))]
        ELSE [self |-> d.self, ret |-> None]

\* Variant: the length is cached before the frame_bytes test.
peek_frame_caches_first(self) ==
    LET d == ffi_decode_frame(self, FALSE)
        samples == d.ret
        s == [d.self EXCEPT !.cached_len = Some(d.self.ffi_frame.frame_bytes)]
    IN  IF peek_frame_found(d.self.ffi_frame)
        THEN [self |-> s, ret |-> Some(peek_frame_view(d.self, samples))]
        ELSE [self |-> s, ret |-> None]

peek_frame(self) ==
    LET d == ffi_decode_frame(self, FALSE)
        samples == d.ret
    IN  IF peek_frame_found(d.self.ffi_frame)
        THEN [self |-> [d.self EXCEPT !.cached_len = Some(d.self.ffi_frame.frame_bytes)],
              ret |-> Some(peek_frame_view(d.self, samples))]
        ELSE [self |-> d.self, ret |-> None]

\* Variant: the cache is left set after it is consumed.
frame_bytes_keeps_cache(self) ==
    IF self.cached_len # None
    THEN [self |-> self, len |-> self.cached_len]
    ELSE LET p == peek_frame(self)
         IN  [self |-> p.self,
              len |-> IF p.ret = None THEN None ELSE Some(p.ret[1].source.len)]

\* Variant: the cache is not consulted.
frame_bytes_always_peeks(self) ==
    LET p == peek_frame(self)
    IN  [self |-> [p.self EXCEPT !.cached_len = None],
         len |-> IF p.ret = None THEN None ELSE Some(p.ret[1].source.len)]

\* Variant: when no frame is found one byte is skipped to resynchronise.
frame_bytes_resync(self) ==
    IF self.cached_len # None
    THEN [self |-> [self EXCEPT !.cached_len = None], len |-> self.cached_len]
    ELSE LET p == peek_frame(self)
         IN  [self |-> [p.self EXCEPT !.cached_len = None],
              len |-> IF p.ret = None THEN Some(1) ELSE Some(p.ret[1].source.len)]

\* Option<usize> and the decoder after the lookup
frame_bytes(self) ==
    IF self.cached_len # None
    THEN [self |-> [self EXCEPT !.cached_len = None], len |-> self.cached_len]
    ELSE LET p == peek_frame(self)
         IN  [self |-> [p.self EXCEPT !.cached_len = None],
              len |-> IF p.ret = None THEN None ELSE Some(p.ret[1].source.len)]

\* Variant: the remaining length is not shrunk.
skip_frame_advance_no_rem(self, len, checked) ==
    LET s1 == add_usize(self, "data_offset", len, checked)
    IN  IF s1.fault = "panic" THEN s1
        ELSE [s1 EXCEPT !.data_ptr = @ + len]

skip_frame_advance(self, len, checked) ==
    LET s1 == add_usize(self, "data_offset", len, checked)
        s2 == IF s1.fault = "panic" THEN s1
              ELSE sub_usize(s1, "data_rem_len", len, checked)
    IN  IF s2.fault = "panic" THEN s2
        ELSE [s2 EXCEPT !.data_ptr = @ + len]

skip_frame(self, checked) ==
    LET f == frame_bytes(self)
    IN  IF f.len # None THEN skip_frame_advance(f.self, f.len[1], checked)
        ELSE f.self

position(self) == self.data_offset

----------------------------------------------------------------------------
(* State machine *)

\* The decoder before an operation, with what the history held then:
\* before |-> the offset one operation earlier still.
Snapshot == [op |-> op, ret |-> ret, data_offset |-> data_offset,
             data_ptr |-> data_ptr, data_rem_len |-> data_rem_len,
             cached_len |-> cached_len, ffi_frame |-> ffi_frame,
             calls |-> calls, before |-> prev.data_offset,
             exhausted |-> hist.exhausted, peeked |-> hist.peeked]

NoHist == [only_next |-> FALSE, n_next |-> 0, prev_end |-> 0, last_end |-> 0,
           sum_ret |-> 0, consumed |-> 0]

new(d) ==
    /\ data = d
    /\ ffi_frame = ZeroedFrameInfo
    /\ cached_len = None
    /\ data_offset = 0
    /\ data_ptr = 0
    /\ data_rem_len = d.total
    /\ fault = "none"
    /\ op = "new"
    /\ ret = None
    /\ pos = 0
    /\ calls = 0
    /\ reported = 0
    /\ presented = <<>>
    /\ prev = [op |-> "none", ret |-> None, data_offset |-> 0, data_ptr |-> 0,
               data_rem_len |-> d.total, cached_len |-> None,
               ffi_frame |-> ZeroedFrameInfo, calls |-> 0, before |-> 0,
               exhausted |-> FALSE, peeked |-> None]
    /\ hist = [NoHist EXCEPT !.only_next = TRUE]
              @@ [exhausted |-> FALSE, peeked |-> None]

Init == window_respected = TRUE /\ \E d \in Buffers : new(d)

InitUnchecked == window_respected = FALSE /\ \E d \in Buffers : new(d)

Store(s) ==
    /\ ffi_frame' = s.ffi_frame
    /\ cached_len' = s.cached_len
    /\ data_offset' = s.data_offset
    /\ data_ptr' = s.data_ptr
    /\ data_rem_len' = s.data_rem_len
    /\ fault' = s.fault
    /\ calls' = s.calls
    /\ reported' = s.reported
    /\ presented' = s.presented
    /\ prev' = Snapshot
    /\ UNCHANGED <<data, window_respected>>

NextFrame ==
    /\ fault = "none"
    /\ \E checked \in BOOLEAN :
         LET r == next_frame(Self, checked)
             got == r.ret # None
             len == IF got THEN r.ret[1].source.len ELSE 0
         IN  /\ Store(r.self)
             /\ op' = "next_frame"
             /\ ret' = r.ret
             /\ pos' = pos
             /\ hist' = IF hist.only_next
                        THEN [hist EXCEPT
                                !.n_next = Min(@ + 1, MaxLen + 2),
                                !.prev_end = hist.last_end,
                                !.last_end = IF got THEN r.ret[1].source.start + len ELSE @,
                                !.sum_ret = @ + len,
                                !.consumed = @ + r.self.reported,
                                !.exhausted = @ \/ (~got /\ r.self.fault = "none"),
                                !.peeked = None]
                        ELSE [hist EXCEPT
                                !.exhausted = @ \/ (~got /\ r.self.fault = "none"),
                                !.peeked = None]

PeekFrame ==
    /\ fault = "none"
    /\ LET r == peek_frame(Self)
       IN  /\ Store(r.self)
           /\ op' = "peek_frame"
           /\ ret' = r.ret
           /\ pos' = pos
           /\ hist' = NoHist @@ [exhausted |-> hist.exhausted, peeked |-> Some(r.ret)]

SkipFrame ==
    /\ fault = "none"
    /\ \E checked \in BOOLEAN :
         /\ Store(skip_frame(Self, checked))
         /\ op' = "skip_frame"
         /\ ret' = None
         /\ pos' = pos
         /\ hist' = NoHist @@ [exhausted |-> hist.exhausted, peeked |-> None]

Position ==
    /\ fault = "none"
    /\ Store(Self)
    /\ op' = "position"
    /\ ret' = None
    /\ pos' = position(Self)
    /\ hist' = hist

Next == NextFrame \/ PeekFrame \/ SkipFrame \/ Position

Spec == Init /\ [][Next]_vars

SpecUnchecked == InitUnchecked /\ [][Next]_vars

----------------------------------------------------------------------------
(* Claims *)

\* C1: when peek_frame() returned a frame and skip_frame() is the very next
\* call, position() has grown by exactly the peeked source length over the
\* two calls and the primitive was invoked once in all (by the peek).
PeekThenSkip ==
    op = "skip_frame" /\ prev.op = "peek_frame" /\ prev.ret # None

C1_PeekSkipReusesCache ==
    PeekThenSkip =>
        /\ position(Self) = prev.before + prev.ret[1].source.len
        /\ prev.calls + calls = 1
        /\ fault = "none"

C1_Witness == PeekThenSkip /\ data_offset > prev.before /\ data_rem_len > 0

\* C2 as stated: over consecutive next_frame() calls on a fresh decoder each
\* returned frame starts where the previous returned frame ended (the first
\* at 0) and position() is the sum of the returned source lengths.
OnlyNextFrame == hist.only_next /\ op = "next_frame"

C2_ContiguousReturnedFrames ==
    OnlyNextFrame =>
        /\ ret # None => ret[1].source.start = hist.prev_end
        /\ data_offset = hist.sum_ret

\* C2 amended: the returned frames do not overlap and come in increasing
\* order, each ending at position(); the gap before a frame is exactly the
\* bytes of the chunks skipped by that call; position() is the sum of the
\* frame_bytes of everything consumed, returned and skipped.
C2_OrderedFramesAccountForConsumed ==
    OnlyNextFrame =>
        /\ ret # None =>
             /\ ret[1].source.start >= hist.prev_end
             /\ ret[1].source.start - hist.prev_end = reported - ret[1].source.len
             /\ ret[1].source.start + ret[1].source.len = data_offset
        /\ data_offset = hist.consumed
        /\ hist.sum_ret <= data_offset

C2_Witness ==
    /\ OnlyNextFrame
    /\ hist.n_next = 2
    /\ ret # None
    /\ hist.prev_end > 0
    /\ ret[1].source.start > hist.prev_end

\* C3: once a next_frame() call has returned nothing, every later
\* next_frame() and peek_frame() returns nothing and the cursor never moves.
C3_ExhaustionIsTerminal ==
    prev.exhausted =>
        /\ data_offset = prev.data_offset
        /\ data_rem_len = prev.data_rem_len
        /\ data_ptr = prev.data_ptr
        /\ cached_len = None
        /\ op \in {"next_frame", "peek_frame"} => ret = None

C3_Witness ==
    /\ prev.exhausted
    /\ op = "skip_frame"
    /\ prev.op = "peek_frame"
    /\ data_rem_len > 0
    /\ data_offset > 0

\* C4: when the primitive reports a frame_bytes (or skip_frame holds a
\* cached length) greater than what remains, the decoder stops instead of
\* advancing: remaining never underflows or wraps and the offset never
\* passes the end of the buffer.
C4_TruncationStopsDecoding ==
    /\ fault = "none"
    /\ data_offset <= data.total
    /\ data_rem_len <= data.total

\* C5: a peek_frame() that follows a peek_frame() with no next_frame() or
\* skip_frame() in between returns the same result and leaves position()
\* where it was.
RepeatedPeek == op = "peek_frame" /\ prev.peeked # None

C5_PeekIsIdempotent ==
    RepeatedPeek =>
        /\ ret = prev.peeked[1]
        /\ position(Self) = prev.data_offset

C5_Witness == RepeatedPeek /\ ret # None /\ ret[1].sample_count > 0 /\ data_offset > 0

\* C6: peek_frame() leaves offset and remaining as they were, whether it finds
\* a frame or not, and a peek_frame() that finds nothing leaves the cache as
\* it was too.
C6_PeekNeverAdvances ==
    op = "peek_frame" =>
        /\ data_offset = prev.data_offset
        /\ data_rem_len = prev.data_rem_len
        /\ data_ptr = prev.data_ptr
        /\ ret = None => cached_len = prev.cached_len

C6_Witness == op = "peek_frame" /\ ret = None /\ data_rem_len > 0 /\ ~hist.exhausted

\* C7: a frame returned by next_frame() has sample_count > 0 and a non-empty
\* sample view.
C7_ReturnedFramesHaveSamples ==
    (op = "next_frame" /\ ret # None) =>
        /\ ret[1].sample_count > 0
        /\ ret[1].samples > 0

C7_Witness == op = "next_frame" /\ ret # None /\ ret[1].channels = 2 /\ calls > 1

\* C8: skip_frame() with an empty cache whose header-only lookup finds no
\* frame changes neither offset nor remaining, leaves the cache empty and
\* raises nothing.
SkipAtEnd ==
    /\ op = "skip_frame"
    /\ prev.cached_len = None
    /\ calls = 1
    /\ ffi_frame.frame_bytes = 0

C8_SkipAtEndIsNoOp ==
    SkipAtEnd =>
        /\ data_offset = prev.data_offset
        /\ data_rem_len = prev.data_rem_len
        /\ data_ptr = prev.data_ptr
        /\ cached_len = None
        /\ fault = "none"

C8_Witness == SkipAtEnd /\ prev.op = "skip_frame" /\ prev.calls = 1 /\ data_offset > 0

\* C9: over an empty buffer next_frame() and peek_frame() return nothing,
\* skip_frame() changes nothing and position() stays 0.
C9_EmptyBuffer ==
    data.total = 0 =>
        /\ ret = None
        /\ data_offset = 0
        /\ data_rem_len = 0
        /\ pos = 0
        /\ cached_len = None
        /\ fault = "none"

C9_Witness ==
    data.total = 0 /\ op = "position" /\ prev.op = "skip_frame" /\ hist.exhausted

\* C10: over a buffer that is exactly k valid audio frames of lengths
\* L1..Lk, the i-th next_frame() (i <= k) returns a frame of source length
\* Li, the (k+1)-th returns nothing and position() is then L1 + ... + Lk.
ValidStream ==
    /\ \A i \in DOMAIN data.chunks :
         /\ data.chunks[i].kind \in {"mono", "stereo"}
         /\ data.chunks[i].len <= c_int_max
    /\ ChunkStart(data.chunks, Len(data.chunks) + 1) = data.total

C10_ConcatenatedFrames ==
    (ValidStream /\ OnlyNextFrame) =>
        LET k == Len(data.chunks)
            i == hist.n_next
        IN  /\ i <= k => (ret # None /\ ret[1].source.len = data.chunks[i].len)
            /\ i = k + 1 => (ret = None /\ position(Self) = data.total)

C10_Witness ==
    /\ ValidStream
    /\ OnlyNextFrame
    /\ Len(data.chunks) = 2
    /\ hist.n_next = 3
    /\ data.chunks[1].len # data.chunks[2].len

\* C11: peek_frame() returns a frame exactly when the header-only call
\* reports frame_bytes > 0, also for a chunk without samples; its sample
\* view is empty and its source view is the frame_bytes bytes at the
\* current offset.  A skip_frame() right after it passes exactly that chunk,
\* while a next_frame() right after it never returns a frame without
\* samples: what it returns lies behind a peeked chunk that had none.
PeekedChunkWithoutSamples ==
    prev.op = "peek_frame" /\ prev.ret # None /\ prev.ret[1].sample_count = 0

C11_PeekDoesNotSkipChunks ==
    /\ op = "peek_frame" =>
         /\ calls = 1
         /\ (ret # None) <=> (ffi_frame.frame_bytes > 0)
         /\ ret # None =>
              /\ ret[1].samples = 0
              /\ ret[1].source.start = prev.data_offset
              /\ ret[1].source.len = ffi_frame.frame_bytes
    /\ (PeekedChunkWithoutSamples /\ op = "skip_frame") =>
         data_offset = prev.data_offset + prev.ret[1].source.len
    /\ (PeekedChunkWithoutSamples /\ op = "next_frame" /\ ret # None) =>
         /\ ret[1].sample_count > 0
         /\ ret[1].source.start >= prev.ret[1].source.start + prev.ret[1].source.len

C11_Witness ==
    /\ PeekedChunkWithoutSamples
    /\ op = "next_frame"
    /\ ret # None
    /\ prev.data_offset > 0

\* C12: offset + remaining is the length of the buffer in every state, and
\* no operation lowers the offset or raises remaining.
C12_CursorInvariant ==
    /\ data_offset + data_rem_len = data.total
    /\ data_ptr = data_offset
    /\ data_rem_len <= prev.data_rem_len
    /\ data_offset >= prev.data_offset

C12_Witness ==
    /\ op = "skip_frame"
    /\ prev.op = "next_frame"
    /\ data_offset > prev.data_offset
    /\ prev.data_offset > 0
    /\ data_rem_len > 0

\* C13: the cache is empty or holds the length a successful peek_frame()
\* reported at the current offset; it is empty right after next_frame() and
\* skip_frame(), and only a successful peek_frame() fills it.
C13_CacheIsNeverStale ==
    /\ cached_len # None =>
         /\ hist.peeked # None
         /\ hist.peeked[1] # None
         /\ hist.peeked[1][1].source = [start |-> data_offset, len |-> cached_len[1]]
         /\ peek_frame(Self).ret # None
         /\ peek_frame(Self).ret[1].source.len = cached_len[1]
    /\ op \in {"next_frame", "skip_frame"} => cached_len = None
    /\ (cached_len # None /\ prev.cached_len = None) =>
         (op = "peek_frame" /\ ret # None)

C13_Witness ==
    /\ cached_len # None
    /\ op = "position"
    /\ prev.op = "peek_frame"
    /\ data_offset > 0

\* C14: a next_frame() call makes finitely many primitive invocations, at
\* most remaining + 1: every retry is made with strictly less remaining
\* than the invocation before it, and the call ends with a frame or with
\* the primitive reporting frame_bytes = 0.
C14_NextFrameTerminates ==
    op = "next_frame" =>
        /\ calls = Len(presented)
        /\ calls >= 1
        /\ calls <= prev.data_rem_len + 1
        /\ \A i \in 1..(Len(presented) - 1) :
             presented[i + 1].remaining < presented[i].remaining
        /\ ret = None => ffi_frame.frame_bytes = 0

C14_Witness ==
    /\ op = "next_frame"
    /\ ret = None
    /\ prev.data_rem_len = 2
    /\ calls = 3
    /\ data_rem_len = 0

\* C15: next_frame() moves position() by the sum of the frame_bytes of all
\* the primitive invocations it made; a returned frame's source view is the
\* last reported frame_bytes bytes ending at the new position(), and starts
\* at or after the position before the call.
C15_NextFrameAdvancesByReported ==
    op = "next_frame" =>
        /\ position(Self) = prev.data_offset + reported
        /\ ret # None =>
             /\ ret[1].source.len = ffi_frame.frame_bytes
             /\ ret[1].source.start = position(Self) - ret[1].source.len
             /\ ret[1].source.start >= prev.data_offset

C15_Witness ==
    /\ op = "next_frame"
    /\ ret # None
    /\ calls = 2
    /\ prev.data_offset > 0
    /\ ret[1].source.start > prev.data_offset

\* C16: every window presented to the primitive is min(remaining, c_int
\* ceiling) long: never above the ceiling, never above remaining; a buffer
\* longer than the ceiling is presented in bounded windows over successive
\* invocations, and no operation fails because of its length.
C16_WindowIsCapped ==
    /\ calls = Len(presented)
    /\ \A i \in DOMAIN presented :
         /\ presented[i].len = Min(presented[i].remaining, c_int_max)
         /\ presented[i].len <= c_int_max
         /\ presented[i].len <= presented[i].remaining
    /\ fault = "none"

C16_Witness ==
    /\ op = "next_frame"
    /\ ret # None
    /\ Len(presented) = 2
    /\ presented[1].remaining > c_int_max
    /\ presented[1].len = c_int_max
    /\ presented[2].len = c_int_max

\* C17: with a primitive that never reports more than the window it was
\* given, the source view of every frame next_frame() or peek_frame()
\* returns lies inside the buffer and is frame_bytes long.
C17_SourceViewInsideBuffer ==
    (window_respected /\ op \in {"next_frame", "peek_frame"} /\ ret # None) =>
        /\ ret[1].source.start >= 0
        /\ ret[1].source.start + ret[1].source.len <= data.total
        /\ ret[1].source.len = ffi_frame.frame_bytes

C17_Witness ==
    /\ window_respected
    /\ op = "peek_frame"
    /\ ret # None
    /\ ret[1].source.start > 0
    /\ ret[1].source.start + ret[1].source.len = data.total

\* C18: the sample view of a frame returned by next_frame() has
\* sample_count * channels elements, at most MAX_SAMPLES_PER_FRAME.
C18_SampleViewInsideBuffer ==
    (op = "next_frame" /\ ret # None) =>
        /\ ret[1].samples = ret[1].sample_count * ret[1].channels
        /\ ret[1].samples <= MAX_SAMPLES_PER_FRAME

C18_Witness ==
    /\ op = "next_frame"
    /\ ret # None
    /\ ret[1].samples = MAX_SAMPLES_PER_FRAME

\* C19: when header-only and full decode agree on every chunk, next_frame()
\* leaves offset, pointer, remaining and cache as does repeating
\* peek_frame(); skip_frame() from the same state until a peeked frame with
\* samples has been skipped or peek_frame() returns nothing.
ModesAgree == \A i \in DOMAIN data.chunks : data.chunks[i].kind # "damaged"

RECURSIVE PeekSkipLoop(_)
PeekSkipLoop(self) ==
    LET p == peek_frame(self)
    IN  IF p.ret = None THEN p.self
        ELSE LET s == skip_frame(p.self, TRUE)
             IN  IF p.ret[1].sample_count > 0 \/ s.fault # "none" THEN s
                 ELSE PeekSkipLoop(s)

Before == [Self EXCEPT !.ffi_frame = prev.ffi_frame,
                       !.cached_len = prev.cached_len,
                       !.data_offset = prev.data_offset,
                       !.data_ptr = prev.data_ptr,
                       !.data_rem_len = prev.data_rem_len]

C19_NextFrameIsPeekSkipLoop ==
    (ModesAgree /\ op = "next_frame") =>
        LET twin == PeekSkipLoop(Before)
        IN  /\ twin.data_offset = data_offset
            /\ twin.data_ptr = data_ptr
            /\ twin.data_rem_len = data_rem_len
            /\ twin.cached_len = cached_len
            /\ twin.fault = fault
            /\ position(twin) = position(Self)

C19_Witness ==
    /\ ModesAgree
    /\ op = "next_frame"
    /\ ret # None
    /\ calls = 2
    /\ prev.cached_len # None
    /\ data_rem_len > 0

====
